---- MODULE Spec2Model ----
(***************************************************************************)
(* Model of src/diff_output.c (libgit2): the delta driver                  *)
(* git_diff_foreach, the binary classifier, the content loader and the     *)
(* xdiff output adapter diff_output_cb.                                    *)
(*                                                                         *)
(* Text is a sequence of one-character strings; the end of the sequence    *)
(* is the terminating NUL of the C string.  A buffer is abstracted to its  *)
(* length and the set of offsets that hold a NUL byte, which is all that   *)
(* strnlen() and the emptiness tests of the driver look at.                *)
(***************************************************************************)
EXTENDS Integers, Sequences, FiniteSets, TLC

\* ---------------------------------------------------------------- bounds
MaxDeltas == 2

\* ------------------------------------------------------- program constants
GIT_SUCCESS   == 0
GIT_ERROR     == -1
GIT_ENOTFOUND == -3
GIT_ENOMEM    == -4
GIT_EOSERR    == -5

\* min(len, 4000) in file_is_binary_by_content
SniffWindow == 4000

\* number of values of the addressable-length type size_t (a 16 bit size_t,
\* the smallest the C standard allows; git_off_t is wider)
SizeTModulus == 65536

Digits == {"0", "1", "2", "3", "4", "5", "6", "7", "8", "9"}

DigitVal(c) ==
  CASE c = "0" -> 0 [] c = "1" -> 1 [] c = "2" -> 2 [] c = "3" -> 3
    [] c = "4" -> 4 [] c = "5" -> 5 [] c = "6" -> 6 [] c = "7" -> 7
    [] c = "8" -> 8 [] c = "9" -> 9

Min(a, b) == IF a < b THEN a ELSE b

\* the character at 1-based position p of a C string; "NUL" at its end
CharAt(s, p) == IF p <= Len(s) THEN s[p] ELSE "NUL"

\* ------------------------------------------------------------ read_next_int
\* for (scan = *str; *scan && !isdigit(*scan); scan++);
RECURSIVE SkipNonDigits(_, _)
SkipNonDigits(s, p) ==
  IF p <= Len(s) /\ s[p] \notin Digits THEN SkipNonDigits(s, p + 1) ELSE p

\* for (; isdigit(*scan); scan++, digits++) v = (v * 10) + (*scan - '0');
RECURSIVE ParseDigits(_, _, _, _)
ParseDigits(s, p, v, digits) ==
  IF p <= Len(s) /\ s[p] \in Digits
    THEN ParseDigits(s, p + 1, (v * 10) + DigitVal(s[p]), digits + 1)
    ELSE [scan |-> p, value |-> v, digits |-> digits]

read_next_int(s, p) ==
  LET r == ParseDigits(s, SkipNonDigits(s, p), 0, 0)
  IN  [scan  |-> r.scan,
       value |-> r.value,
       err   |-> IF r.digits > 0 THEN GIT_SUCCESS ELSE GIT_ENOTFOUND]

\* ------------------------------------------------------------ hunk header
DefaultRange ==
  [old_start |-> -1, old_lines |-> 0, new_start |-> -1, new_lines |-> 0]

\* bug: the line counts are read whether or not a comma follows the start
ParseHunkHeader_AlwaysCount(hdr) ==
  LET a  == read_next_int(hdr, 1)
      r1 == [DefaultRange EXCEPT !.old_start = a.value]
      hasOldLines == (a.err = GIT_SUCCESS)
      b  == IF hasOldLines THEN read_next_int(hdr, a.scan) ELSE a
      r2 == IF hasOldLines THEN [r1 EXCEPT !.old_lines = b.value] ELSE r1
      e2 == b.err
      c  == IF e2 = GIT_SUCCESS THEN read_next_int(hdr, b.scan) ELSE b
      r3 == IF e2 = GIT_SUCCESS THEN [r2 EXCEPT !.new_start = c.value] ELSE r2
      e3 == c.err
      hasNewLines == (e3 = GIT_SUCCESS)
      d  == IF hasNewLines THEN read_next_int(hdr, c.scan) ELSE c
      r4 == IF hasNewLines THEN [r3 EXCEPT !.new_lines = d.value] ELSE r3
  IN  [range |-> r4, err |-> d.err]

\* the body of `if (bufs[0].ptr[0] == '@')` up to the test that guards the
\* hunk callback: the parsed range and err
ParseHunkHeader(hdr) ==
  LET a  == read_next_int(hdr, 1)
      r1 == [DefaultRange EXCEPT !.old_start = a.value]
      hasOldLines == (a.err = GIT_SUCCESS) /\ CharAt(hdr, a.scan) = ","
      b  == IF hasOldLines THEN read_next_int(hdr, a.scan) ELSE a
      r2 == IF hasOldLines THEN [r1 EXCEPT !.old_lines = b.value] ELSE r1
      e2 == b.err
      c  == IF e2 = GIT_SUCCESS THEN read_next_int(hdr, b.scan) ELSE b
      r3 == IF e2 = GIT_SUCCESS THEN [r2 EXCEPT !.new_start = c.value] ELSE r2
      e3 == c.err
      hasNewLines == (e3 = GIT_SUCCESS) /\ CharAt(hdr, c.scan) = ","
      d  == IF hasNewLines THEN read_next_int(hdr, c.scan) ELSE c
      r4 == IF hasNewLines THEN [r3 EXCEPT !.new_lines = d.value] ELSE r3
  IN  [range |-> r4, err |-> d.err]

\* ------------------------------------------------------------------ events
\* One record shape for everything the monitors log.
NoText == << >>

Ev(kind) ==
  [kind |-> kind, side |-> "-", origin |-> "-", text |-> NoText,
   range |-> DefaultRange, ret |-> GIT_SUCCESS, binary |-> -1]

HunkEv(range, text, binary, ret) ==
  [Ev("hunk") EXCEPT !.range = range, !.text = text,
                     !.binary = binary, !.ret = ret]

LineEv(origin, text, binary, ret) ==
  [Ev("line") EXCEPT !.origin = origin, !.text = text,
                     !.binary = binary, !.ret = ret]

FileEv(binary, ret) == [Ev("file") EXCEPT !.binary = binary, !.ret = ret]

SideEv(kind, side) == [Ev(kind) EXCEPT !.side = side]

\* ---------------------------------------------------------- diff_output_cb
\* info: [hunk_cb, line_cb : BOOLEAN (callback supplied), binary : the
\* binary field of info->delta]; bufs: the parts of the xdiff output unit;
\* rh, rl1, rl2: what the user's hunk callback, first and second line
\* callback return if they are called.
\* bug: the line at the end of the file is reported after a failure too
WantsEofLine_AfterFailure(err, len) == len = 3

\* if (err == GIT_SUCCESS && len == 3)
WantsEofLine(err, len) == err = GIT_SUCCESS /\ len = 3

diff_output_cb(info, bufs, rh, rl1, rl2) ==
  LET len == Len(bufs)
  IN
  IF len = 1 /\ info.hunk_cb
    THEN IF CharAt(bufs[1], 1) = "@"
           THEN LET p == ParseHunkHeader(bufs[1])
                IN  IF p.err = GIT_SUCCESS /\ p.range.old_start >= 0
                       /\ p.range.new_start >= 0
                      THEN [err   |-> rh,
                            calls |-> << HunkEv(p.range, bufs[1],
                                                info.binary, rh) >>]
                      ELSE [err |-> p.err, calls |-> << >>]
           ELSE [err |-> GIT_SUCCESS, calls |-> << >>]
  ELSE IF (len = 2 \/ len = 3) /\ info.line_cb
    THEN LET origin == IF CharAt(bufs[1], 1) = "+" THEN "ADDITION"
                       ELSE IF CharAt(bufs[1], 1) = "-" THEN "DELETION"
                       ELSE "CONTEXT"
             first == LineEv(origin, bufs[2], info.binary, rl1)
         IN  IF WantsEofLine(rl1, len)
               THEN LET origin2 == IF origin = "ADDITION" THEN "ADD_EOFNL"
                                   ELSE "DEL_EOFNL"
                    IN  [err   |-> rl2,
                         calls |-> << first,
                                      LineEv(origin2, bufs[3],
                                             info.binary, rl2) >>]
               ELSE [err |-> rl1, calls |-> << first >>]
  ELSE [err |-> GIT_SUCCESS, calls |-> << >>]

\* ------------------------------------------------------- binary classifier
BINARY_DIFF_FLAGS == {"BINARY", "NOT_BINARY"}

\* value: what git_attr_get produced for "diff": "FALSE", "TRUE", "UNSET"
set_file_is_binary_by_attr(file, value) ==
  IF value = "FALSE" THEN [file EXCEPT !.flags = @ \cup {"BINARY"}]
  ELSE IF value = "TRUE" THEN [file EXCEPT !.flags = @ \cup {"NOT_BINARY"}]
  ELSE file

set_delta_is_binary(delta) ==
  IF "BINARY" \in delta.old.flags \/ "BINARY" \in delta.new.flags
    THEN [delta EXCEPT !.binary = 1]
  ELSE IF "NOT_BINARY" \in delta.old.flags \/ "NOT_BINARY" \in delta.new.flags
    THEN [delta EXCEPT !.binary = 0]
  ELSE delta

\* (git_off_t)((size_t)size) != size
SizeOverflows(size) == (size % SizeTModulus) # size

\* git_attr_get(repo, path, "diff", &value): the attribute of the path, or
\* "ERR" when the lookup fails
git_attr_get(path, fails) == IF fails THEN "ERR" ELSE path.attr

\* ro, rn: the outcome of git_attr_get for the old and the new path,
\* "ERR" when it fails.  Result: the delta, the error and the sides whose
\* attribute was queried, in order.
file_is_binary_by_attr(force_text, delta0, ro, rn) ==
  LET delta == [delta0 EXCEPT !.binary = -1]
  IN
  IF SizeOverflows(delta.old.size) \/ SizeOverflows(delta.new.size)
    THEN [delta |-> [delta EXCEPT !.old.flags = @ \cup {"BINARY"},
                                  !.new.flags = @ \cup {"BINARY"},
                                  !.binary = 1],
          error |-> GIT_SUCCESS, queried |-> << >>]
  ELSE IF force_text
    THEN [delta |-> [delta EXCEPT !.old.flags = @ \cup {"NOT_BINARY"},
                                  !.new.flags = @ \cup {"NOT_BINARY"},
                                  !.binary = 0],
          error |-> GIT_SUCCESS, queried |-> << >>]
  ELSE IF ro = "ERR"
    THEN [delta |-> delta, error |-> GIT_ERROR, queried |-> << "old" >>]
  ELSE
    LET d1 == [delta EXCEPT !.old = set_file_is_binary_by_attr(@, ro)]
        mirror_new == (d1.new.path = d1.old.path)
    IN  IF mirror_new
          THEN [delta |-> set_delta_is_binary(
                            [d1 EXCEPT !.new.flags =
                               @ \cap (d1.old.flags \cap BINARY_DIFF_FLAGS)]),
                error |-> GIT_SUCCESS, queried |-> << "old" >>]
        ELSE IF rn = "ERR"
          THEN [delta |-> set_delta_is_binary(d1),
                error |-> GIT_ERROR, queried |-> << "old", "new" >>]
        ELSE [delta |-> set_delta_is_binary(
                          [d1 EXCEPT !.new = set_file_is_binary_by_attr(@, rn)]),
              error |-> GIT_SUCCESS, queried |-> << "old", "new" >>]

\* strnlen(data, maxlen): the offset of the first NUL below maxlen, else maxlen
strnlen(map, maxlen) ==
  LET cand == {off \in map.nuls : off < maxlen}
  IN  IF cand = {} THEN maxlen
      ELSE CHOOSE m \in cand : \A o \in cand : m <= o

\* bug: the whole buffer is searched for a NUL
SniffSide_WholeBuffer(file, map) ==
  IF file.flags \cap BINARY_DIFF_FLAGS = {}
    THEN LET search_len == map.len
         IN  IF strnlen(map, search_len) # search_len
               THEN [file EXCEPT !.flags = @ \cup {"BINARY"}]
               ELSE [file EXCEPT !.flags = @ \cup {"NOT_BINARY"}]
    ELSE file

SniffSide(file, map) ==
  IF file.flags \cap BINARY_DIFF_FLAGS = {}
    THEN LET search_len == Min(map.len, SniffWindow)
         IN  IF strnlen(map, search_len) # search_len
               THEN [file EXCEPT !.flags = @ \cup {"BINARY"}]
               ELSE [file EXCEPT !.flags = @ \cup {"NOT_BINARY"}]
    ELSE file

file_is_binary_by_content(delta, old_data, new_data) ==
  set_delta_is_binary([delta EXCEPT !.old = SniffSide(@, old_data),
                                    !.new = SniffSide(@, new_data)])

\* ----------------------------------------------------------- content loader
\* A git_map: where data points ("uninit": never assigned, "static": the
\* literal "", "blob", "heap", "mmap", "null"), its length and the offsets
\* of its NUL bytes.
Map(data, len, nuls) == [data |-> data, len |-> len, nuls |-> nuls]

UninitMap == Map("uninit", 0, {})
EmptyMap  == Map("static", 0, {})

\* What the object store or the filesystem answers for one load:
\* fail \in {"none", "lookup", "join", "alloc", "mmap"}, and the bytes.
Outcome(fail, c) == [fail |-> fail, len |-> c.len, nuls |-> c.nuls]

get_blob_content(oid, map, o) ==
  IF oid = 0
    THEN [error |-> GIT_SUCCESS, map |-> map, blob |-> FALSE]
  ELSE IF o.fail = "lookup"
    THEN [error |-> GIT_ENOTFOUND, map |-> map, blob |-> FALSE]
  ELSE [error |-> GIT_SUCCESS, map |-> Map("blob", o.len, o.nuls),
        blob |-> TRUE]

get_workdir_content(file, map, o) ==
  IF o.fail = "join"
    THEN [error |-> GIT_ENOMEM, file |-> file, map |-> map]
  ELSE IF file.mode = "LNK"
    THEN LET f == [file EXCEPT !.flags = @ \cup {"FREE_DATA", "BINARY"}]
         IN  IF o.fail = "alloc"
               THEN [error |-> GIT_ENOMEM, file |-> f,
                     map |-> [map EXCEPT !.data = "null"]]
             ELSE LET read_len == Min(o.len, file.size + 1)
                  IN  IF read_len # file.size
                        THEN [error |-> GIT_EOSERR, file |-> f,
                              map |-> [map EXCEPT !.data = "heap"]]
                        ELSE [error |-> GIT_SUCCESS, file |-> f,
                              map |-> Map("heap", read_len,
                                          {n \in o.nuls : n < read_len})]
  ELSE LET f == [file EXCEPT !.flags = @ \cup {"UNMAP_DATA"}]
       IN  IF o.fail = "mmap"
             THEN [error |-> GIT_EOSERR, file |-> f, map |-> map]
             ELSE [error |-> GIT_SUCCESS, file |-> f,
                   map |-> Map("mmap", o.len, o.nuls)]

\* bug: the heap-owned flag survives the release
release_content_KeepsFlag(side, file, map, blob) ==
  LET b == IF blob THEN << SideEv("blob_free", side) >> ELSE << >>
  IN  IF "FREE_DATA" \in file.flags
        THEN [file |-> file,
              map  |-> [map EXCEPT !.data = "null"],
              evs  |-> b \o << [SideEv("free", side) EXCEPT !.origin = map.data] >>]
      ELSE IF "UNMAP_DATA" \in file.flags
        THEN [file |-> [file EXCEPT !.flags = @ \ {"UNMAP_DATA"}],
              map  |-> [map EXCEPT !.data = "null"],
              evs  |-> b \o << [SideEv("unmap", side) EXCEPT !.origin = map.data] >>]
      ELSE [file |-> file, map |-> map, evs |-> b]

\* Result: the file, the map and what was given back, in order.
release_content(side, file, map, blob) ==
  LET b == IF blob THEN << SideEv("blob_free", side) >> ELSE << >>
  IN  IF "FREE_DATA" \in file.flags
        THEN [file |-> [file EXCEPT !.flags = @ \ {"FREE_DATA"}],
              map  |-> [map EXCEPT !.data = "null"],
              evs  |-> b \o << [SideEv("free", side) EXCEPT !.origin = map.data] >>]
      ELSE IF "UNMAP_DATA" \in file.flags
        THEN [file |-> [file EXCEPT !.flags = @ \ {"UNMAP_DATA"}],
              map  |-> [map EXCEPT !.data = "null"],
              evs  |-> b \o << [SideEv("unmap", side) EXCEPT !.origin = map.data] >>]
      ELSE [file |-> file, map |-> map, evs |-> b]

\* ------------------------------------------------------------------ inputs
Statuses ==
  {"UNMODIFIED", "ADDED", "DELETED", "MODIFIED", "RENAMED", "COPIED",
   "IGNORED", "UNTRACKED"}

SmallSize == 3
HugeSize  == SizeTModulus + SmallSize

\* The repository the traversal runs against.  A content is named by an
\* id, which is also the oid of the blob that holds it (0 is the zero oid):
\* text, other text, binary, text with a NUL just behind the sniffed window,
\* the empty content, and a NUL in the last byte of the window.
ContentIds == 1..6

ContentOf(id) ==
  CASE id = 1 -> [len |-> SmallSize, nuls |-> {}]
    [] id = 2 -> [len |-> SmallSize + 1, nuls |-> {}]
    [] id = 3 -> [len |-> SmallSize, nuls |-> {1}]
    [] id = 4 -> [len |-> SniffWindow + 1, nuls |-> {SniffWindow}]
    [] id = 5 -> [len |-> 0, nuls |-> {}]
    [] id = 6 -> [len |-> SniffWindow, nuls |-> {SniffWindow - 1}]
    [] OTHER  -> [len |-> 0, nuls |-> {}]

\* A path is named after what the repository holds for it: the value of
\* its "diff" attribute and the content of the file (or the target of the
\* symlink) in the working directory.
Path(name, attr, wd) == [name |-> name, attr |-> attr, wd |-> wd]

AttrValues == {"UNSET", "TRUE", "FALSE"}

\* a git_diff_file
File(path, oid, size, mode) ==
  [path |-> path, oid |-> oid, size |-> size, mode |-> mode,
   flags |-> IF oid = 0 THEN {} ELSE {"VALID_OID"}]

Delta(status, old, new) ==
  [status |-> status, old |-> old, new |-> new, binary |-> -1]

\* old content, new content
ContentPairs ==
  {<< 1, 2 >>, << 1, 3 >>, << 3, 1 >>, << 5, 5 >>, << 1, 4 >>, << 6, 1 >>}

LoadedStatuses == {"ADDED", "DELETED", "MODIFIED"}

\* a delta whose two sides have the same path
SamePathDelta(st, attr, cp, newoid, mode, so, sn) ==
  LET p == Path("a", attr, cp[2])
  IN  Delta(st, File(p, cp[1], so, mode), File(p, newoid, sn, mode))

\* The deltas the delta-list builder hands over: every status; for the
\* statuses whose content is loaded every attribute value and content pair,
\* symlinks, a zero new oid; different paths with every pair of attribute
\* values; declared sizes that do not fit size_t.
DeltaSet ==
  {SamePathDelta(st, "UNSET", << 1, 2 >>, 2, "REG", SmallSize, SmallSize) :
     st \in Statuses}
  \cup
  {SamePathDelta(st, attr, cp, cp[2], "REG", SmallSize, SmallSize) :
     st \in LoadedStatuses, attr \in AttrValues, cp \in ContentPairs}
  \cup
  {SamePathDelta(st, "UNSET", cp, IF known THEN cp[2] ELSE 0, mode,
                 SmallSize, SmallSize) :
     st \in LoadedStatuses, cp \in {<< 1, 3 >>, << 3, 1 >>, << 1, 2 >>},
     known \in BOOLEAN, mode \in {"REG", "LNK"}}
  \cup
  {Delta(st, File(Path("a", ao, 1), 1, SmallSize, "REG"),
             File(Path("b", an, 3), 3, SmallSize, "REG")) :
     st \in {"MODIFIED", "RENAMED"}, ao \in AttrValues, an \in AttrValues}
  \cup
  {SamePathDelta(st, "UNSET", << 1, 2 >>, noid, "REG", so, sn) :
     st \in {"MODIFIED", "RENAMED"}, noid \in {0, 2},
     so \in {SmallSize, HugeSize}, sn \in {SmallSize, HugeSize}}
  \cup
  \* a working-directory file that was not hashed and holds what the old
  \* side holds
  {SamePathDelta(st, "UNSET", << 1, 1 >>, 0, "REG", SmallSize, SmallSize) :
     st \in {"ADDED", "MODIFIED"}}

\* the deltas that longer lists are made of
CoreSet ==
  {SamePathDelta(st, "UNSET", << 1, 2 >>, 2, "REG", SmallSize, SmallSize) :
     st \in {"UNMODIFIED", "UNTRACKED", "RENAMED", "MODIFIED"}}

\* the deltas that are subject to the two inclusion options
OptionalSet ==
  {SamePathDelta(st, "UNSET", << 1, 2 >>, 2, "REG", SmallSize, SmallSize) :
     st \in {"IGNORED", "UNTRACKED"}}

DeltaLists ==
  {<< d >> : d \in DeltaSet}
  \cup UNION {[1..n -> CoreSet] : n \in 2..MaxDeltas}
  \cup {<< d1, d2 >> : d1 \in OptionalSet, d2 \in OptionalSet}

HasStatus(ds, st) == \E i \in 1..Len(ds) : ds[i].status = st

\* each side is read from the object store in one pair and from the
\* working directory in the other
SourcePairs == {<< "TREE", "WORKDIR" >>, << "WORKDIR", "TREE" >>}

\* what a hunk or line callback may return
CbRets == {GIT_SUCCESS, GIT_ERROR}

\* what a file callback may return: a user callback is free to report its
\* failure with a positive value
FileCbRets == {GIT_SUCCESS, GIT_ERROR, -GIT_ERROR}

\* what can go wrong in a load, whatever the repository holds
LoadFailures == {"none", "lookup", "join", "alloc", "mmap"}

H356 == <<"@","@"," ","-","3",",","5"," ","+","3",",","6"," ","@","@">>
H001 == <<"@","@"," ","-","0",",","0"," ","+","1"," ","@","@">>
HBad == <<"@","@"," ","@","@">>
EofMarker == <<"\\">>

\* the output units xdl_diff may emit for a pair of buffers
Scripts ==
  { << <<H356>>, << <<"+">>, <<"x">> >>, << <<"-">>, <<"y">> >> >>,
    << <<H001>>, << <<"+">>, <<"x">>, EofMarker >> >>,
    << <<HBad>>, << <<" ">>, <<"x">> >> >> }

\* ------------------------------------------------------------------- state
VARIABLES
  diff,       \* git_diff_list: opts, old_src, new_src, deltas
  cbs,        \* which of file_cb, hunk_cb, line_cb are non-NULL
  index,      \* info.index
  pc,         \* position inside git_diff_foreach
  error,      \* the local `error`
  result,     \* what git_diff_foreach returned (read when pc = "done")
  old_data, new_data, old_blob, new_blob,
  xdl,        \* output units xdl_diff has still to emit
  log,        \* what happened in the current (last entered) iteration
  fileLog,    \* progress (index, total) of every file callback so far
  cbErr,      \* the first callback failure of the traversal: which
              \* callback, what it returned, at which index, and how many
              \* output units xdl_diff had still to emit after it
  afterErr    \* kinds of events that happened after cbErr

vars == << diff, cbs, index, pc, error, result, old_data, new_data,
           old_blob, new_blob, xdl, log, fileLog, cbErr, afterErr >>

NoCbErr == [kind |-> "none", ret |-> GIT_SUCCESS, index |-> 0, pending |-> 0]

Init ==
  /\ \E ft \in BOOLEAN, ii \in BOOLEAN, iu \in BOOLEAN,
        src \in SourcePairs, ds \in DeltaLists :
       \* the inclusion options vary where a delta can be subject to them
       /\ ii => HasStatus(ds, "IGNORED")
       /\ iu => HasStatus(ds, "UNTRACKED")
       /\ diff = [opts |-> [force_text |-> ft, include_ignored |-> ii,
                            include_untracked |-> iu],
                  old_src |-> src[1], new_src |-> src[2], deltas |-> ds]
  /\ cbs \in [file_cb : BOOLEAN, hunk_cb : BOOLEAN, line_cb : BOOLEAN]
  /\ index = 0
  /\ pc = "loop"
  /\ error = GIT_SUCCESS
  /\ result = GIT_SUCCESS
  /\ old_data = UninitMap /\ new_data = UninitMap
  /\ old_blob = FALSE /\ new_blob = FALSE
  /\ xdl = << >>
  /\ log = << >>
  /\ fileLog = << >>
  /\ cbErr = NoCbErr
  /\ afterErr = {}

\* the delta of the current iteration
CurDelta == diff.deltas[index + 1]

\* ---------------------------------------------------------------- monitors
RECURSIVE Track(_, _)
Track(m, evs) ==
  IF evs = << >> THEN m
  ELSE LET e == Head(evs)
           m1 == IF m.cbErr.kind # "none"
                   THEN [m EXCEPT !.afterErr = @ \cup {e.kind}]
                 ELSE IF e.kind \in {"file", "hunk", "line"}
                         /\ e.ret # GIT_SUCCESS
                   THEN [m EXCEPT !.cbErr = [kind |-> e.kind, ret |-> e.ret,
                                             index |-> index,
                                             pending |-> Len(xdl) - 1]]
                 ELSE m
       IN  Track(m1, Tail(evs))

\* append evs to the iteration's log and feed the monitors
Record(evs) ==
  LET m == Track([cbErr |-> cbErr, afterErr |-> afterErr], evs)
  IN  /\ log' = log \o evs
      /\ cbErr' = m.cbErr
      /\ afterErr' = m.afterErr

\* -------------------------------------------------------- git_diff_foreach
\* bug: untracked deltas are skipped whatever include-untracked says
IsSkipped_AlwaysUntracked(opts, delta) ==
  \/ delta.status = "UNMODIFIED"
  \/ delta.status = "IGNORED" /\ ~opts.include_ignored
  \/ delta.status = "UNTRACKED"

\* the three `continue` tests at the head of the loop body
IsSkipped(opts, delta) ==
  \/ delta.status = "UNMODIFIED"
  \/ delta.status = "IGNORED" /\ ~opts.include_ignored
  \/ delta.status = "UNTRACKED" /\ ~opts.include_untracked

SetDelta(d) == diff' = [diff EXCEPT !.deltas[index + 1] = d]

\* git_vector_foreach ran off the end: return error
LoopExit ==
  /\ pc = "loop"
  /\ index >= Len(diff.deltas)
  /\ pc' = "done"
  /\ result' = error
  /\ UNCHANGED << diff, cbs, index, error, old_data, new_data, old_blob,
                  new_blob, xdl, log, fileLog, cbErr, afterErr >>

\* one of the three `continue`s
SkipDelta ==
  /\ pc = "loop"
  /\ index < Len(diff.deltas)
  /\ IsSkipped(diff.opts, CurDelta)
  /\ index' = index + 1
  /\ UNCHANGED << diff, cbs, pc, error, result, old_data, new_data,
                  old_blob, new_blob, xdl, log, fileLog, cbErr, afterErr >>

\* the delta passes the skip-check; the iteration's locals come to life
EnterDelta ==
  /\ pc = "loop"
  /\ index < Len(diff.deltas)
  /\ ~IsSkipped(diff.opts, CurDelta)
  /\ pc' = "classify"
  /\ old_blob' = FALSE /\ new_blob' = FALSE
  /\ old_data' = UninitMap /\ new_data' = UninitMap
  /\ log' = << Ev("begin") >>
  /\ afterErr' = IF cbErr.kind # "none" THEN afterErr \cup {"begin"}
                 ELSE afterErr
  /\ UNCHANGED << diff, cbs, index, error, result, xdl, fileLog, cbErr >>

\* error = file_is_binary_by_attr(diff, delta); then the maps are set to ""
Classify ==
  /\ pc = "classify"
  /\ \E eo \in BOOLEAN, en \in BOOLEAN :
       LET r == file_is_binary_by_attr(diff.opts.force_text, CurDelta,
                  git_attr_get(CurDelta.old.path, eo),
                  git_attr_get(CurDelta.new.path, en))
       IN  /\ SetDelta(r.delta)
           /\ error' = r.error
           /\ Record(<< Ev("classify") >>
                     \o [i \in 1..Len(r.queried) |->
                           SideEv("attr", r.queried[i])])
           /\ IF r.error < GIT_SUCCESS
                THEN /\ pc' = "cleanup"
                     /\ UNCHANGED << old_data, new_data >>
                ELSE /\ pc' = "load_old"
                     /\ old_data' = EmptyMap
                     /\ new_data' = EmptyMap
  /\ UNCHANGED << cbs, index, result, old_blob, new_blob, xdl, fileLog >>

WantOld(delta) ==
  /\ delta.binary # 1
  /\ (cbs.hunk_cb \/ cbs.line_cb)
  /\ delta.status \in {"DELETED", "MODIFIED"}

LoadOld ==
  /\ pc = "load_old"
  /\ IF ~WantOld(CurDelta)
       THEN /\ pc' = "load_new"
            /\ UNCHANGED << diff, error, old_data, old_blob, log, cbErr,
                            afterErr >>
       ELSE \E f \in LoadFailures :
              /\ IF diff.old_src = "WORKDIR"
                   THEN LET r == get_workdir_content(CurDelta.old, old_data,
                                   Outcome(f, ContentOf(CurDelta.old.path.wd)))
                        IN  /\ SetDelta([CurDelta EXCEPT !.old = r.file])
                            /\ old_data' = r.map
                            /\ error' = r.error
                            /\ UNCHANGED old_blob
                   ELSE LET r == get_blob_content(CurDelta.old.oid, old_data,
                                   Outcome(f, ContentOf(CurDelta.old.oid)))
                        IN  /\ old_data' = r.map
                            /\ old_blob' = r.blob
                            /\ error' = r.error
                            /\ UNCHANGED diff
              /\ Record(<< SideEv("load", "old") >>)
              /\ pc' = IF error' # GIT_SUCCESS THEN "cleanup" ELSE "load_new"
  /\ UNCHANGED << cbs, index, result, new_data, new_blob, xdl, fileLog >>

\* bug: the new side is loaded for a delta already known to be binary
WantNew_IgnoresBinary(delta) ==
  /\ (cbs.hunk_cb \/ cbs.line_cb \/ delta.new.oid = 0)
  /\ delta.status \in {"ADDED", "MODIFIED"}

WantNew(delta) ==
  /\ delta.binary # 1
  /\ (cbs.hunk_cb \/ cbs.line_cb \/ delta.new.oid = 0)
  /\ delta.status \in {"ADDED", "MODIFIED"}

\* git_odb_hash: the oid of the bytes (9 for bytes no blob holds), -1 when
\* it fails
git_odb_hash(map, fails) ==
  IF fails THEN -1
  ELSE LET ids == {id \in ContentIds :
                     ContentOf(id) = [len |-> map.len, nuls |-> map.nuls]}
       IN  IF ids = {} THEN 9 ELSE CHOOSE id \in ids : TRUE

\* (delta->new.flags | GIT_DIFF_FILE_VALID_OID) == 0
OidNotValid(flags) == (flags \cup {"VALID_OID"}) = {}

LoadNew ==
  /\ pc = "load_new"
  /\ IF ~WantNew(CurDelta)
       THEN /\ pc' = "sniff"
            /\ UNCHANGED << diff, error, new_data, new_blob, log, cbErr,
                            afterErr >>
       ELSE \E f \in LoadFailures, hf \in BOOLEAN :
              LET r == IF diff.new_src = "WORKDIR"
                         THEN get_workdir_content(CurDelta.new, new_data,
                                Outcome(f, ContentOf(CurDelta.new.path.wd)))
                                @@ [blob |-> FALSE]
                         ELSE get_blob_content(CurDelta.new.oid, new_data,
                                Outcome(f, ContentOf(CurDelta.new.oid)))
                                @@ [file |-> CurDelta.new]
                  h == git_odb_hash(r.map, hf)
                  d1 == [CurDelta EXCEPT !.new = r.file]
              IN  /\ new_data' = r.map
                  /\ new_blob' = r.blob
                  /\ IF r.error # GIT_SUCCESS
                       THEN /\ SetDelta(d1)
                            /\ error' = r.error
                            /\ pc' = "cleanup"
                            /\ Record(<< SideEv("load", "new") >>)
                     ELSE IF ~OidNotValid(d1.new.flags)
                       THEN /\ SetDelta(d1)
                            /\ error' = r.error
                            /\ pc' = "sniff"
                            /\ Record(<< SideEv("load", "new") >>)
                     ELSE IF h < 0
                       THEN /\ SetDelta(d1)
                            /\ error' = GIT_ERROR
                            /\ pc' = "cleanup"
                            /\ Record(<< SideEv("load", "new"), Ev("hash") >>)
                     ELSE LET d2 == [d1 EXCEPT !.new.oid = h]
                          IN  /\ error' = GIT_SUCCESS
                              /\ Record(<< SideEv("load", "new"), Ev("hash") >>)
                              /\ IF d2.old.oid = d2.new.oid
                                   THEN /\ SetDelta([d2 EXCEPT !.status =
                                                       "UNMODIFIED"])
                                        /\ pc' = "cleanup"
                                   ELSE /\ SetDelta(d2)
                                        /\ pc' = "sniff"
  /\ UNCHANGED << cbs, index, result, old_data, old_blob, xdl, fileLog >>

\* bug: the content is sniffed unless the delta is known to be binary
NeedsSniff_UnlessBinary(delta) == delta.binary # 1

\* if (delta->binary == -1)
NeedsSniff(delta) == delta.binary = -1

\* if (delta->binary == -1) file_is_binary_by_content(...)
Sniff ==
  /\ pc = "sniff"
  /\ IF NeedsSniff(CurDelta)
       THEN /\ SetDelta(file_is_binary_by_content(CurDelta, old_data, new_data))
            /\ Record(<< Ev("sniff") >>)
       ELSE UNCHANGED << diff, log, cbErr, afterErr >>
  /\ pc' = "file_cb"
  /\ UNCHANGED << cbs, index, error, result, old_data, new_data, old_blob,
                  new_blob, xdl, fileLog >>

\* bug: progress counts from one
Progress_OneBased(idx, length) == << idx + 1, length >>

\* (float)info.index / diff->deltas.length, as numerator and denominator
Progress(idx, length) == << idx, length >>

\* if (error != GIT_SUCCESS) goto cleanup;
CallbackFailed(err) == err # GIT_SUCCESS

\* if (file_cb != NULL) error = file_cb(data, delta, index / length)
FileCb ==
  /\ pc = "file_cb"
  /\ IF cbs.file_cb
       THEN \E r \in FileCbRets :
              /\ error' = r
              /\ fileLog' = Append(fileLog, Progress(index, Len(diff.deltas)))
              /\ Record(<< FileEv(CurDelta.binary, r) >>)
              /\ pc' = IF CallbackFailed(r) THEN "cleanup" ELSE "diff"
       ELSE /\ pc' = "diff"
            /\ UNCHANGED << error, fileLog, log, cbErr, afterErr >>
  /\ UNCHANGED << diff, cbs, index, result, old_data, new_data, old_blob,
                  new_blob, xdl >>

\* bug: a binary delta is diffed as long as it has data
SkipsDiff_IgnoresBinary(delta, od, nd) == od.len = 0 /\ nd.len = 0

\* if (delta->binary == 1) goto cleanup;
\* if (!old_data.len && !new_data.len) goto cleanup;
SkipsDiff(delta, od, nd) ==
  \/ delta.binary = 1
  \/ od.len = 0 /\ nd.len = 0

\* the two `goto cleanup`s in front of the diff
NoDiff ==
  /\ pc = "diff"
  /\ SkipsDiff(CurDelta, old_data, new_data)
  /\ pc' = "cleanup"
  /\ UNCHANGED << diff, cbs, index, error, result, old_data, new_data,
                  old_blob, new_blob, xdl, log, fileLog, cbErr, afterErr >>

\* assert(hunk_cb || line_cb) fails in a build with assertions
AssertFails ==
  /\ pc = "diff"
  /\ ~SkipsDiff(CurDelta, old_data, new_data)
  /\ ~(cbs.hunk_cb \/ cbs.line_cb)
  /\ pc' = "aborted"
  /\ UNCHANGED << diff, cbs, index, error, result, old_data, new_data,
                  old_blob, new_blob, xdl, log, fileLog, cbErr, afterErr >>

\* xdl_diff is entered (with NDEBUG also when the assertion would fail);
\* what it will emit is the diff algorithm's business
XdlStart ==
  /\ pc = "diff"
  /\ ~SkipsDiff(CurDelta, old_data, new_data)
  /\ \E sc \in Scripts : xdl' = sc
  /\ pc' = "xdl"
  /\ Record(<< Ev("xdl_diff") >>)
  /\ UNCHANGED << diff, cbs, index, error, result, old_data, new_data,
                  old_blob, new_blob, fileLog >>

\* xdl_diff hands one output unit to diff_output_cb and gives up when the
\* callback reports a failure
XdlEmit ==
  /\ pc = "xdl"
  /\ xdl # << >>
  /\ \E rh \in CbRets, rl1 \in CbRets, rl2 \in CbRets :
       LET r == diff_output_cb(
                  [hunk_cb |-> cbs.hunk_cb, line_cb |-> cbs.line_cb,
                   binary |-> CurDelta.binary], Head(xdl), rh, rl1, rl2)
       IN  /\ Record(r.calls)
           /\ xdl' = IF r.err < 0 THEN << >> ELSE Tail(xdl)
  /\ UNCHANGED << diff, cbs, index, pc, error, result, old_data, new_data,
                  old_blob, new_blob, fileLog >>

\* xdl_diff returns; git_diff_foreach does not look at what it returns
XdlReturn ==
  /\ pc = "xdl"
  /\ xdl = << >>
  /\ pc' = "cleanup"
  /\ UNCHANGED << diff, cbs, index, error, result, old_data, new_data,
                  old_blob, new_blob, xdl, log, fileLog, cbErr, afterErr >>

\* bug: only a negative error ends the loop
LoopBreaks_NegativeOnly(err) == err < GIT_SUCCESS

\* if (error != GIT_SUCCESS) break;
LoopBreaks(err) == err # GIT_SUCCESS

\* cleanup: release both sides; if (error != GIT_SUCCESS) break;
Cleanup ==
  /\ pc = "cleanup"
  /\ LET ro == release_content("old", CurDelta.old, old_data, old_blob)
         rn == release_content("new", CurDelta.new, new_data, new_blob)
     IN  /\ SetDelta([CurDelta EXCEPT !.old = ro.file, !.new = rn.file])
         /\ Record(<< SideEv("release", "old") >> \o ro.evs
                   \o << SideEv("release", "new") >> \o rn.evs)
  /\ old_data' = UninitMap /\ new_data' = UninitMap
  /\ old_blob' = FALSE /\ new_blob' = FALSE
  /\ IF LoopBreaks(error)
       THEN /\ pc' = "done"
            /\ result' = error
            /\ UNCHANGED index
       ELSE /\ pc' = "loop"
            /\ index' = index + 1
            /\ UNCHANGED result
  /\ UNCHANGED << cbs, error, xdl, fileLog >>

Next ==
  \/ LoopExit \/ SkipDelta \/ EnterDelta \/ Classify \/ LoadOld \/ LoadNew
  \/ Sniff \/ FileCb \/ NoDiff \/ AssertFails \/ XdlStart \/ XdlEmit
  \/ XdlReturn \/ Cleanup

Spec == Init /\ [][Next]_vars

\* ------------------------------------------ the adapter on one output unit
\* diff_output_cb applied to a single output unit of xdl_diff, for every
\* combination of callbacks: the unit is Head(xdl), the callbacks it makes
\* end up in log and what it returns in error.

\* "@@ -os[,ol] +ns[,nl] @@" followed by trail; ol, nl = << >>: no count
MkHeader(os, ol, ns, nl, trail) ==
  <<"@", "@", " ", "-">> \o os
    \o (IF ol = << >> THEN << >> ELSE <<",">> \o ol)
    \o <<" ", "+">> \o ns
    \o (IF nl = << >> THEN << >> ELSE <<",">> \o nl)
    \o <<" ", "@", "@">> \o trail

StartTexts == {<<"0">>, <<"1">>, <<"3">>, <<"1", "2">>}
CountTexts == {<< >>, <<"0">>, <<"5">>, <<"6">>}
TrailTexts == {<< >>, <<" ", "f", "(", "9", ")">>}

WellFormedHeaders ==
  {MkHeader(os, ol, ns, nl, tr) :
     os \in StartTexts, ol \in CountTexts, ns \in StartTexts,
     nl \in CountTexts, tr \in TrailTexts}

\* headers without any digit, with one number only, without the leading '@'
MalformedHeaders ==
  {HBad, <<"@", "@">>, <<"@", "@", " ", "-", "3", " ", "@", "@">>,
   <<"@", "@", " ", "-", "3", ",", "5", " ", "@", "@">>,
   <<"3", ",", "5", " ", "+", "3", ",", "6">>, <<"x">>}

LineUnits ==
  {<< <<c>>, <<"x">> >> : c \in {"+", "-", " "}}
  \cup {<< <<c>>, <<"x">>, EofMarker >> : c \in {"+", "-", " "}}

AdapterUnits ==
  {<< h >> : h \in WellFormedHeaders \cup MalformedHeaders} \cup LineUnits

InitAdapter ==
  /\ diff = [opts |-> [force_text |-> FALSE, include_ignored |-> FALSE,
                       include_untracked |-> FALSE],
             old_src |-> "TREE", new_src |-> "TREE",
             deltas |-> << [SamePathDelta("MODIFIED", "UNSET", << 1, 2 >>, 2,
                                          "REG", SmallSize, SmallSize)
                              EXCEPT !.binary = 0] >>]
  /\ cbs \in [file_cb : {FALSE}, hunk_cb : BOOLEAN, line_cb : BOOLEAN]
  /\ index = 0
  /\ pc = "adapter"
  /\ error = GIT_SUCCESS
  /\ result = GIT_SUCCESS
  /\ old_data = UninitMap /\ new_data = UninitMap
  /\ old_blob = FALSE /\ new_blob = FALSE
  /\ xdl \in {<< u >> : u \in AdapterUnits}
  /\ log = << >>
  /\ fileLog = << >>
  /\ cbErr = NoCbErr
  /\ afterErr = {}

AdapterCall ==
  /\ pc = "adapter"
  /\ \E rh \in CbRets, rl1 \in CbRets, rl2 \in CbRets :
       LET r == diff_output_cb(
                  [hunk_cb |-> cbs.hunk_cb, line_cb |-> cbs.line_cb,
                   binary |-> CurDelta.binary], Head(xdl), rh, rl1, rl2)
       IN  /\ Record(r.calls)
           /\ error' = r.err
  /\ pc' = "adapter_done"
  /\ UNCHANGED << diff, cbs, index, result, old_data, new_data, old_blob,
                  new_blob, xdl, fileLog >>

NextAdapter == AdapterCall

SpecAdapter == InitAdapter /\ [][NextAdapter]_vars

\* ------------------------------------------------------------ the renderers
\* A print callback call is logged with its line-kind tag in origin.  What
\* git_buf_printf builds is a string; the callback's text is the buffer.
PrintEv(tag, text, ret) ==
  [Ev("print") EXCEPT !.origin = tag, !.text = << text >>, !.ret = ret]

\* A file mode is named after what it stands for: "NONE" is 0, "REG" is
\* 0100644, "EXE" 0100755, "LNK" 0120000 and "DIR" 040000.
\* "%o" of a mode
Octal(mode) ==
  CASE mode = "NONE" -> "0"
    [] mode = "REG"  -> "100644"
    [] mode = "EXE"  -> "100755"
    [] mode = "LNK"  -> "120000"
    [] mode = "DIR"  -> "40000"

\* git_oid_to_string(buf, 8, oid): the first seven hex digits of the oid
git_oid_to_string(oid) ==
  CASE oid = 0 -> "0000000"
    [] oid = 1 -> "1111111"
    [] oid = 2 -> "2222222"
    [] oid = 3 -> "3333333"
    [] oid = 4 -> "4444444"
    [] oid = 5 -> "5555555"
    [] oid = 6 -> "6666666"
    [] OTHER   -> "9999999"

\* what print_oid_range appends to the buffer
print_oid_range(delta) ==
  LET start_oid == git_oid_to_string(delta.old.oid)
      end_oid   == git_oid_to_string(delta.new.oid)
  IN  IF delta.old.mode = delta.new.mode
        THEN "index " \o start_oid \o ".." \o end_oid \o " "
               \o Octal(delta.old.mode) \o "\n"
        ELSE (IF delta.old.mode = "NONE"
                THEN "new file mode " \o Octal(delta.new.mode) \o "\n"
              ELSE IF delta.new.mode = "NONE"
                THEN "deleted file mode " \o Octal(delta.old.mode) \o "\n"
              ELSE "old mode " \o Octal(delta.old.mode) \o "\n"
                     \o "new mode " \o Octal(delta.new.mode) \o "\n")
             \o "index " \o start_oid \o ".." \o end_oid \o "\n"

\* bug: the file lines are printed for a binary delta too
PrintsFileLines_Always(delta) == TRUE

\* if (delta->binary != 1): the "--- " and "+++ " lines are printed
PrintsFileLines(delta) == delta.binary # 1

\* oldpfx and oldpath after the two git_oid_iszero tests
OldSideText(opts, delta) ==
  IF delta.old.oid = 0 \/ delta.new.oid = 0
    THEN "" \o "/dev/null"
    ELSE opts.src_prefix \o delta.old.path.name

\* newpfx and newpath: nothing assigns them after their initialisation
NewSideText(opts, delta) == opts.dst_prefix \o delta.new.path.name

\* oom1, oom2: git_buf_lasterror reports a failure after the header, after
\* the binary notice; r1, r2: what print_cb returns for each of them
print_patch_file(opts, delta, oom1, oom2, r1, r2) ==
  LET header ==
        "diff --git " \o opts.src_prefix \o delta.old.path.name \o " "
          \o opts.dst_prefix \o delta.new.path.name \o "\n"
          \o print_oid_range(delta)
          \o (IF PrintsFileLines(delta)
                THEN "--- " \o OldSideText(opts, delta) \o "\n"
                       \o "+++ " \o NewSideText(opts, delta) \o "\n"
                ELSE "")
      notice ==
        "Binary files " \o OldSideText(opts, delta) \o " and "
          \o NewSideText(opts, delta) \o " differ\n"
      first == PrintEv("FILE_HDR", header, r1)
  IN  IF oom1 THEN [err |-> GIT_ENOMEM, calls |-> << >>]
      ELSE IF r1 # GIT_SUCCESS \/ delta.binary # 1
        THEN [err |-> r1, calls |-> << first >>]
      ELSE IF oom2 THEN [err |-> GIT_ENOMEM, calls |-> << first >>]
      ELSE [err |-> r2, calls |-> << first, PrintEv("BINARY", notice, r2) >>]

\* the header is forwarded as it is
print_patch_hunk(header, oom, r) ==
  IF oom THEN [err |-> GIT_ENOMEM, calls |-> << >>]
  ELSE [err |-> r,
        calls |-> << [Ev("print") EXCEPT !.origin = "HUNK_HDR",
                                         !.text = header, !.ret = r] >>]

\* the character a line origin is ('+', '-', ' ')
OriginChar(origin) ==
  CASE origin = "ADDITION" -> "+"
    [] origin = "DELETION" -> "-"
    [] origin = "CONTEXT"  -> " "

print_patch_line(line_origin, content, oom, r) ==
  LET printed == line_origin \in {"ADDITION", "DELETION", "CONTEXT"}
                   \/ Len(content) > 0
      buf == IF line_origin \in {"ADDITION", "DELETION", "CONTEXT"}
               THEN << OriginChar(line_origin) >> \o content
             ELSE content
  IN  IF printed /\ oom THEN [err |-> GIT_ENOMEM, calls |-> << >>]
      ELSE [err |-> r,
            calls |-> << [Ev("print") EXCEPT !.origin = line_origin,
                                             !.text = buf, !.ret = r] >>]

\* pick_suffix(mode): '/' for a directory, '*' with the owner's execute
\* bit (0100), else ' '
pick_suffix(mode) ==
  IF mode = "DIR" THEN "/"
  ELSE IF mode = "EXE" THEN "*"
  ELSE " "

\* the switch of print_compact; "" stands for code = 0
StatusCode(status) ==
  CASE status = "ADDED"     -> "A"
    [] status = "DELETED"   -> "D"
    [] status = "MODIFIED"  -> "M"
    [] status = "RENAMED"   -> "R"
    [] status = "COPIED"    -> "C"
    [] status = "IGNORED"   -> "I"
    [] status = "UNTRACKED" -> "?"
    [] OTHER                -> ""

print_compact(delta, oom, r) ==
  LET code == StatusCode(delta.status)
      old_suffix == pick_suffix(delta.old.mode)
      new_suffix == pick_suffix(delta.new.mode)
      buf ==
        IF delta.old.path.name # delta.new.path.name
          THEN code \o "\t" \o delta.old.path.name \o old_suffix \o " -> "
                 \o delta.new.path.name \o new_suffix \o "\n"
        ELSE IF delta.old.mode # delta.new.mode /\ delta.old.mode # "NONE"
                /\ delta.new.mode # "NONE"
          THEN code \o "\t" \o delta.old.path.name \o new_suffix \o " ("
                 \o Octal(delta.old.mode) \o " -> " \o Octal(delta.new.mode)
                 \o ")\n"
        ELSE IF old_suffix # " "
          THEN code \o "\t" \o delta.old.path.name \o old_suffix \o "\n"
        ELSE code \o "\t" \o delta.old.path.name \o "\n"
  IN  IF code = "" THEN [err |-> GIT_SUCCESS, calls |-> << >>]
      ELSE IF oom THEN [err |-> GIT_ENOMEM, calls |-> << >>]
      ELSE [err |-> r, calls |-> << PrintEv("FILE_HDR", buf, r) >>]

\* ---------------------------------------------------- deltas to be rendered
RenderPath(name, attr, cp) == Path(name, attr, cp[2])

\* modified (with a mode change, with a new side not yet hashed), added,
\* deleted, renamed and copied, ignored and untracked deltas, text and
\* binary, by attribute and by content
RenderDeltaSet ==
  {Delta("MODIFIED",
         File(RenderPath("f", attr, cp), cp[1], SmallSize, m[1]),
         File(RenderPath("f", attr, cp), IF known THEN cp[2] ELSE 0,
              SmallSize, m[2])) :
     attr \in {"UNSET", "FALSE"}, cp \in {<< 1, 2 >>, << 1, 3 >>},
     known \in BOOLEAN, m \in {<< "REG", "REG" >>, << "REG", "EXE" >>}}
  \cup
  {Delta("ADDED",
         File(RenderPath("f", attr, << 0, 2 >>), 0, 0, "NONE"),
         File(RenderPath("f", attr, << 0, 2 >>), IF known THEN 2 ELSE 0,
              SmallSize, m)) :
     attr \in {"UNSET", "FALSE"}, known \in BOOLEAN, m \in {"REG", "EXE"}}
  \cup
  {Delta("DELETED",
         File(RenderPath("f", attr, << 1, 0 >>), 1, SmallSize, "REG"),
         File(RenderPath("f", attr, << 1, 0 >>), 0, 0, "NONE")) :
     attr \in {"UNSET", "FALSE"}}
  \cup
  {Delta(st, File(RenderPath("f", "UNSET", << 1, 1 >>), 1, SmallSize, m),
             File(RenderPath("g", "UNSET", << 1, 1 >>), 1, SmallSize, m)) :
     st \in {"RENAMED", "COPIED"}, m \in {"REG", "EXE", "DIR"}}
  \cup
  {Delta(st, File(RenderPath("f", "UNSET", << 0, 1 >>), 0, 0, "NONE"),
             File(RenderPath("f", "UNSET", << 0, 1 >>), 0, SmallSize, m)) :
     st \in {"IGNORED", "UNTRACKED"}, m \in {"REG", "DIR"}}
  \cup
  {Delta("UNMODIFIED",
         File(RenderPath("f", "UNSET", << 1, 1 >>), 1, SmallSize, "REG"),
         File(RenderPath("f", "UNSET", << 1, 1 >>), 1, SmallSize, "REG"))}

\* the deltas that longer lists to be rendered are made of: a binary
\* modification and a rename
RenderCore ==
  {d \in RenderDeltaSet :
     \/ d.status = "MODIFIED" /\ d.old.path.attr = "FALSE" /\ d.new.oid = 2
          /\ d.new.mode = "REG"
     \/ d.status = "RENAMED" /\ d.old.mode = "REG"}

RenderLists ==
  {<< d >> : d \in RenderDeltaSet}
  \cup UNION {[1..n -> RenderCore] : n \in 2..MaxDeltas}

\* git_diff_print_patch / git_diff_print_compact enter git_diff_foreach
InitRender(hunk_and_line) ==
  /\ \E ft \in BOOLEAN, ii \in BOOLEAN, iu \in BOOLEAN,
        src \in SourcePairs, ds \in RenderLists :
       /\ ii => HasStatus(ds, "IGNORED")
       /\ iu => HasStatus(ds, "UNTRACKED")
       /\ diff = [opts |-> [force_text |-> ft, include_ignored |-> ii,
                            include_untracked |-> iu,
                            src_prefix |-> "a/", dst_prefix |-> "b/"],
                  old_src |-> src[1], new_src |-> src[2], deltas |-> ds]
  /\ cbs = [file_cb |-> TRUE, hunk_cb |-> hunk_and_line,
            line_cb |-> hunk_and_line]
  /\ index = 0
  /\ pc = "loop"
  /\ error = GIT_SUCCESS
  /\ result = GIT_SUCCESS
  /\ old_data = UninitMap /\ new_data = UninitMap
  /\ old_blob = FALSE /\ new_blob = FALSE
  /\ xdl = << >>
  /\ log = << >>
  /\ fileLog = << >>
  /\ cbErr = NoCbErr
  /\ afterErr = {}

\* ------------------------------------------------------ git_diff_print_patch
InitPatch == InitRender(TRUE)

\* error = file_cb(...) with file_cb = print_patch_file
PatchFileCb ==
  /\ pc = "file_cb"
  /\ \E oom1 \in BOOLEAN, oom2 \in BOOLEAN, r1 \in CbRets, r2 \in CbRets :
       LET r == print_patch_file(diff.opts, CurDelta, oom1, oom2, r1, r2)
       IN  /\ error' = r.err
           /\ fileLog' = Append(fileLog, Progress(index, Len(diff.deltas)))
           /\ Record(<< FileEv(CurDelta.binary, r.err) >> \o r.calls)
           /\ pc' = IF CallbackFailed(r.err) THEN "cleanup" ELSE "diff"
  /\ UNCHANGED << diff, cbs, index, result, old_data, new_data, old_blob,
                  new_blob, xdl >>

\* what the renderer's callback prints for one call of the adapter
PatchPrints(call, oom, r) ==
  IF call.kind = "hunk" THEN print_patch_hunk(call.text, oom, r)
  ELSE print_patch_line(call.origin, call.text, oom, r)

\* a callback that is not made
NoPrints == [err |-> GIT_SUCCESS, calls |-> << >>]

\* all: the calls the adapter makes for a unit when no callback fails;
\* what print_patch_hunk or print_patch_line does in each of them
PatchCallbacks(all, oom1, oom2, r1, r2) ==
  << IF Len(all) >= 1 THEN PatchPrints(all[1], oom1, r1) ELSE NoPrints,
     IF Len(all) >= 2 THEN PatchPrints(all[2], oom2, r2) ELSE NoPrints >>

\* the calls of the adapter, each followed by what its callback printed
PatchEvents(calls, p) ==
  IF Len(calls) = 0 THEN << >>
  ELSE IF Len(calls) = 1 THEN << calls[1] >> \o p[1].calls
  ELSE << calls[1] >> \o p[1].calls \o << calls[2] >> \o p[2].calls

\* xdl_diff hands one output unit to diff_output_cb, whose hunk and line
\* callbacks are print_patch_hunk and print_patch_line, and gives up when
\* the callback reports a failure
PatchXdlEmit ==
  /\ pc = "xdl"
  /\ xdl # << >>
  /\ \E oom1 \in BOOLEAN, oom2 \in BOOLEAN, r1 \in CbRets, r2 \in CbRets :
       \E info \in {[hunk_cb |-> cbs.hunk_cb, line_cb |-> cbs.line_cb,
                      binary |-> CurDelta.binary]} :
       \E all \in {diff_output_cb(info, Head(xdl), GIT_SUCCESS, GIT_SUCCESS,
                                  GIT_SUCCESS).calls} :
       \E p \in {PatchCallbacks(all, oom1, oom2, r1, r2)} :
       \E r \in {diff_output_cb(info, Head(xdl), p[1].err, p[1].err,
                                p[2].err)} :
         /\ Record(PatchEvents(r.calls, p))
         /\ xdl' = IF r.err < 0 THEN << >> ELSE Tail(xdl)
  /\ UNCHANGED << diff, cbs, index, pc, error, result, old_data, new_data,
                  old_blob, new_blob, fileLog >>

\* the assertion in front of xdl_diff holds: both callbacks are supplied
NextPatch ==
  \/ LoopExit \/ SkipDelta \/ EnterDelta \/ Classify \/ LoadOld \/ LoadNew
  \/ Sniff \/ PatchFileCb \/ NoDiff \/ XdlStart \/ PatchXdlEmit
  \/ XdlReturn \/ Cleanup

SpecPatch == InitPatch /\ [][NextPatch]_vars

\* ---------------------------------------------------- git_diff_print_compact
InitCompact == InitRender(FALSE)

\* error = file_cb(...) with file_cb = print_compact
CompactFileCb ==
  /\ pc = "file_cb"
  /\ \E oom \in BOOLEAN, r1 \in CbRets :
       LET r == print_compact(CurDelta, oom, r1)
       IN  /\ error' = r.err
           /\ fileLog' = Append(fileLog, Progress(index, Len(diff.deltas)))
           /\ Record(<< FileEv(CurDelta.binary, r.err) >> \o r.calls)
           /\ pc' = IF CallbackFailed(r.err) THEN "cleanup" ELSE "diff"
  /\ UNCHANGED << diff, cbs, index, result, old_data, new_data, old_blob,
                  new_blob, xdl >>

NextCompact ==
  \/ LoopExit \/ SkipDelta \/ EnterDelta \/ Classify \/ LoadOld \/ LoadNew
  \/ Sniff \/ CompactFileCb \/ NoDiff \/ AssertFails \/ XdlStart \/ XdlEmit
  \/ XdlReturn \/ Cleanup

SpecCompact == InitCompact /\ [][NextCompact]_vars

\* ------------------------------------------------------------ git_diff_blobs
\* A blob argument is the oid of the blob, 0 for a NULL pointer.

\* git_object_id(obj): the oid of the object.  With a NULL object the
\* library's assertion stops the process, or (NDEBUG) an address near zero
\* is read: the process dies (-1) or some bytes come back (9).
git_object_id(blob) == IF blob = 0 THEN {-1, 9} ELSE {blob}

\* old.ptr / old.size: the raw content of the blob, or "" for a NULL blob
BlobFile(blob) ==
  IF blob # 0 THEN Map("blob", ContentOf(blob).len, ContentOf(blob).nuls)
  ELSE EmptyMap

\* delta.status = old.ptr ? (new.ptr ? MODIFIED : DELETED)
\*                        : (new.ptr ? ADDED : UNTRACKED)
BlobsStatus(old, new) ==
  IF old.data # "null"
    THEN (IF new.data # "null" THEN "MODIFIED" ELSE "DELETED")
    ELSE (IF new.data # "null" THEN "ADDED" ELSE "UNTRACKED")

\* the blobs after the swap under GIT_DIFF_REVERSE
SwappedBlobs(d) ==
  IF ~d.opts.null /\ d.opts.reverse THEN << d.new_blob, d.old_blob >>
  ELSE << d.old_blob, d.new_blob >>

\* the path of the fake delta is NULL
NullPath == Path("NULL", "UNSET", 0)

InitBlobs ==
  /\ \E ob \in {0, 1, 3}, nb \in {0, 2}, nul \in BOOLEAN, rev \in BOOLEAN :
       /\ nul => ~rev
       /\ diff = [opts |-> [null |-> nul, reverse |-> rev],
                  old_blob |-> ob, new_blob |-> nb, deltas |-> << >>]
  /\ cbs \in [file_cb : {FALSE}, hunk_cb : BOOLEAN, line_cb : BOOLEAN]
  /\ index = 0
  /\ pc = "blobs"
  /\ error = GIT_SUCCESS
  /\ result = GIT_SUCCESS
  /\ old_data = UninitMap /\ new_data = UninitMap
  /\ old_blob = FALSE /\ new_blob = FALSE
  /\ xdl = << >>
  /\ log = << >>
  /\ fileLog = << >>
  /\ cbErr = NoCbErr
  /\ afterErr = {}

\* from the entry of git_diff_blobs to the entry of xdl_diff; delta.binary
\* is never assigned and holds whatever the stack held
BlobsDiff ==
  /\ pc = "blobs"
  /\ \E oo \in git_object_id(SwappedBlobs(diff)[1]),
        no \in git_object_id(SwappedBlobs(diff)[2]),
        bin \in {-1, 0, 1}, sc \in Scripts \cup {<< >>} :
       IF oo < 0 \/ no < 0
         THEN /\ pc' = "aborted"
              /\ UNCHANGED << diff, old_data, new_data, xdl, log, cbErr,
                              afterErr >>
         ELSE LET old == BlobFile(SwappedBlobs(diff)[1])
                  new == BlobFile(SwappedBlobs(diff)[2])
                  delta == [Delta(BlobsStatus(old, new),
                                  File(NullPath, oo, 0, "REG"),
                                  File(NullPath, no, 0, "REG"))
                              EXCEPT !.binary = bin]
              IN  /\ diff' = [diff EXCEPT !.deltas = << delta >>]
                  /\ old_data' = old
                  /\ new_data' = new
                  /\ xdl' = sc
                  /\ pc' = "xdl"
                  /\ Record(<< Ev("xdl_diff") >>)
  /\ UNCHANGED << cbs, index, error, result, old_blob, new_blob, fileLog >>

\* xdl_diff returns; return GIT_SUCCESS
BlobsReturn ==
  /\ pc = "xdl"
  /\ xdl = << >>
  /\ pc' = "done"
  /\ result' = GIT_SUCCESS
  /\ UNCHANGED << diff, cbs, index, error, old_data, new_data, old_blob,
                  new_blob, xdl, log, fileLog, cbErr, afterErr >>

NextBlobs == BlobsDiff \/ XdlEmit \/ BlobsReturn

SpecBlobs == InitBlobs /\ [][NextBlobs]_vars

\* --------------------------------------------- traversals of the same list
\* git_diff_foreach is called three times: on the list as the builder made
\* it, with hunk and line callbacks (pass 1); then, on a list in that same
\* state, with a file callback only, as the compact renderer does (pass 2),
\* and again with hunk and line callbacks (pass 3).  diff.fresh keeps the
\* deltas as pass 1 left them and diff.freshFiles its file callbacks.
TwiceDeltaSet ==
  {SamePathDelta("MODIFIED", attr, cp, cp[2], "REG", SmallSize, SmallSize) :
     attr \in AttrValues, cp \in {<< 1, 2 >>, << 1, 3 >>, << 3, 1 >>}}
  \cup
  {SamePathDelta("MODIFIED", "UNSET", cp, 0, "REG", SmallSize, SmallSize) :
     cp \in {<< 1, 2 >>, << 1, 3 >>}}
  \cup
  {Delta("MODIFIED", File(Path("a", "UNSET", 1), 1, SmallSize, "REG"),
                     File(Path("b", "UNSET", 3), 3, SmallSize, "REG"))}

TwiceLists ==
  {<< d >> : d \in TwiceDeltaSet}
  \cup UNION {[1..n -> CoreSet] : n \in 2..MaxDeltas}

\* the callbacks of the three passes
PassCbs(pass) ==
  [file_cb |-> TRUE, hunk_cb |-> pass # 2, line_cb |-> pass # 2]

InitTwice ==
  /\ \E ft \in BOOLEAN, src \in SourcePairs, ds \in TwiceLists :
       diff = [opts |-> [force_text |-> ft, include_ignored |-> FALSE,
                         include_untracked |-> FALSE],
               old_src |-> src[1], new_src |-> src[2], deltas |-> ds,
               pristine |-> ds, pass |-> 1, fresh |-> ds,
               freshFiles |-> << >>]
  /\ cbs = PassCbs(1)
  /\ index = 0
  /\ pc = "loop"
  /\ error = GIT_SUCCESS
  /\ result = GIT_SUCCESS
  /\ old_data = UninitMap /\ new_data = UninitMap
  /\ old_blob = FALSE /\ new_blob = FALSE
  /\ xdl = << >>
  /\ log = << >>
  /\ fileLog = << >>
  /\ cbErr = NoCbErr
  /\ afterErr = {}

\* git_diff_foreach has returned and is entered again: after pass 1 on the
\* list as it was at first, after pass 2 on the list as pass 2 left it
EnterAgain ==
  /\ pc = "done"
  /\ diff.pass < 3
  /\ diff' = IF diff.pass = 1
               THEN [diff EXCEPT !.pass = 2, !.fresh = diff.deltas,
                                 !.freshFiles = fileLog,
                                 !.deltas = diff.pristine]
               ELSE [diff EXCEPT !.pass = 3]
  /\ cbs' = PassCbs(diff.pass + 1)
  /\ index' = 0
  /\ pc' = "loop"
  /\ error' = GIT_SUCCESS
  /\ result' = GIT_SUCCESS
  /\ log' = << >>
  /\ fileLog' = << >>
  /\ cbErr' = NoCbErr
  /\ afterErr' = {}
  /\ UNCHANGED << old_data, new_data, old_blob, new_blob, xdl >>

NextTwice == Next \/ EnterAgain

SpecTwice == InitTwice /\ [][NextTwice]_vars

\* ================================================================== claims
Kinds(l) == {l[i].kind : i \in DOMAIN l}

Count(l, kind, side) ==
  Cardinality({i \in DOMAIN l : l[i].kind = kind /\ l[i].side = side})

ReleaseKinds == {"release", "blob_free", "free", "unmap"}

OwnedFlags == {"FREE_DATA", "UNMAP_DATA"}

\* positions inside the body of one iteration, after the classification
AfterClassify ==
  {"load_old", "load_new", "sniff", "file_cb", "diff", "xdl", "cleanup"}

ReleasedOnce ==
  Count(log, "release", "old") = 1 /\ Count(log, "release", "new") = 1

\* C1: when the line callback fails on the first of the two lines of a
\* hunk, the second line is not passed to it, no later delta is processed,
\* no further callback fires, git_diff_foreach returns that error, and both
\* sides of the current delta are released.
C1_LineErrorStopsTraversal ==
  (cbErr.kind = "line" /\ cbErr.pending = 1) =>
    /\ afterErr \cap {"line", "hunk", "file", "begin", "classify", "attr",
                      "load"} = {}
    /\ pc # "loop"
    /\ pc = "done" => result = cbErr.ret /\ ReleasedOnce

\* C2: when the file callback fails for a delta, nothing but the release of
\* that delta follows: no hunk or line callback, no later delta, both sides
\* released once, and git_diff_foreach returns the callback's value.
C2_FileErrorAborts ==
  \A i \in DOMAIN log :
    (log[i].kind = "file" /\ log[i].ret # GIT_SUCCESS) =>
      /\ \A j \in (i + 1)..Len(log) : log[j].kind \in ReleaseKinds
      /\ pc \in {"cleanup", "done"}
      /\ fileLog[Len(fileLog)] = << index, Len(diff.deltas) >>
      /\ pc = "done" => result = log[i].ret /\ ReleasedOnce

\* a positive failure of the file callback on the first of three deltas
\* ended the traversal
C2_Witness ==
  /\ pc = "done"
  /\ result = -GIT_ERROR
  /\ index = 0
  /\ Len(diff.deltas) > 1
  /\ \A i \in DOMAIN diff.deltas : diff.deltas[i].status = "MODIFIED"
  /\ \E i \in DOMAIN log : log[i].kind = "file" /\ log[i].ret = -GIT_ERROR

\* C3: every delta that passes the skip-check has both sides released
\* exactly once before the next delta starts or the traversal returns, on
\* every exit path, and no side carries the heap-owned or map-owned flag at
\* the start of an iteration or at return.
C3_ReleaseOncePerDelta ==
  /\ pc \in {"loop", "done"} =>
       \A i \in DOMAIN diff.deltas :
         (diff.deltas[i].old.flags \cup diff.deltas[i].new.flags)
           \cap OwnedFlags = {}
  /\ (pc \in {"loop", "done"} /\ log # << >>) => ReleasedOnce
  /\ pc \in (AfterClassify \cup {"classify"}) =>
       /\ Count(log, "release", "old") = 0
       /\ Count(log, "release", "new") = 0
       /\ \A i \in DOMAIN diff.deltas :
            i # index + 1 =>
              (diff.deltas[i].old.flags \cup diff.deltas[i].new.flags)
                \cap OwnedFlags = {}

\* a symlink whose target could not be read: the load failed, the heap
\* buffer was freed and the traversal returned
C3_Witness ==
  /\ pc = "done"
  /\ result = GIT_EOSERR
  /\ "free" \in Kinds(log)
  /\ ReleasedOnce

\* the skip-check as the claim words it
ClaimSkipped(opts, delta) ==
  \/ delta.status = "UNMODIFIED"
  \/ delta.status = "IGNORED" /\ ~opts.include_ignored
  \/ delta.status = "UNTRACKED" /\ ~opts.include_untracked

\* C4: a delta is skipped (nothing is queried, loaded or reported for it and
\* the traversal moves on) exactly when it is unmodified, or ignored without
\* include-ignored, or untracked without include-untracked.
C4_SkipCheck ==
  [][ (pc = "loop" /\ index < Len(diff.deltas)) =>
        IF ClaimSkipped(diff.opts, CurDelta)
          THEN /\ pc' = "loop"
               /\ index' = index + 1
               /\ UNCHANGED << diff, log, fileLog, error, old_data, new_data,
                               old_blob, new_blob, cbErr, afterErr >>
          ELSE /\ pc' = "classify"
               /\ index' = index ]_vars

\* an untracked delta was passed over without include-untracked and the
\* delta behind it was entered
C4_Witness ==
  /\ index = 1
  /\ pc = "classify"
  /\ diff.deltas[1].status = "UNTRACKED"
  /\ ~diff.opts.include_untracked
  /\ diff.deltas[1].binary = -1
  /\ fileLog = << >>

RECURSIVE NonSkipped(_, _, _)
\* the indexes (from 0) of the deltas of ds, from position i on, that pass
\* the skip-check
NonSkipped(opts, ds, i) ==
  IF i > Len(ds) THEN << >>
  ELSE (IF ClaimSkipped(opts, ds[i]) THEN << >> ELSE << i - 1 >>)
         \o NonSkipped(opts, ds, i + 1)

\* C5: in a traversal in which nothing fails and a file callback is
\* supplied, the file callback fires once per non-skipped delta, in list
\* order, with progress index / total.
C5_FileCallbackPerDelta ==
  (pc = "done" /\ cbs.file_cb /\ result = GIT_SUCCESS /\ cbErr.kind = "none")
    => LET ns == NonSkipped(diff.opts, diff.deltas, 1)
       IN  fileLog = [k \in 1..Len(ns) |-> << ns[k], Len(diff.deltas) >>]

\* a skipped delta in front: the only file callback has progress 1 / total
C5_Witness ==
  /\ pc = "done" /\ cbs.file_cb /\ result = GIT_SUCCESS
  /\ cbErr.kind = "none"
  /\ Len(diff.deltas) > 1
  /\ diff.deltas[1].status = "UNMODIFIED"
  /\ Len(fileLog) = 1
  /\ fileLog[1][1] = 1

\* C6: whenever a hunk or line callback fires the delta's binary field is
\* false; a delta resolved binary, or whose two buffers are empty, gets no
\* hunk or line callback.
C6_BinaryResolvedBeforeDiff ==
  /\ \A i \in DOMAIN log :
       log[i].kind \in {"hunk", "line"} => log[i].binary = 0
  /\ (pc \in {"file_cb", "diff", "xdl", "cleanup"}
        /\ (CurDelta.binary = 1 \/ (old_data.len = 0 /\ new_data.len = 0)))
       => Kinds(log) \cap {"hunk", "line", "xdl_diff"} = {}

\* a delta that the content sniff resolved to text got a line callback
C6_Witness ==
  /\ pc = "xdl"
  /\ "sniff" \in Kinds(log)
  /\ "line" \in Kinds(log)
  /\ "hunk" \in Kinds(log)

\* a declared size that does not fit size_t
ClaimOverflow(delta) ==
  delta.old.size >= SizeTModulus \/ delta.new.size >= SizeTModulus

\* C7: a delta with a declared size that does not fit size_t gets both sides
\* marked binary and binary = true with no attribute query and no load, also
\* under force-text; its file callback fires, no hunk or line callback does.
C7_SizeOverflowIsBinary ==
  (pc \in AfterClassify /\ ClaimOverflow(CurDelta)) =>
    /\ "BINARY" \in CurDelta.old.flags
    /\ "BINARY" \in CurDelta.new.flags
    /\ CurDelta.binary = 1
    /\ Kinds(log) \cap {"attr", "load", "hunk", "line", "xdl_diff"} = {}
    /\ old_data = EmptyMap /\ new_data = EmptyMap
    /\ pc # "xdl"
    /\ (pc \in {"diff", "cleanup"} /\ cbs.file_cb) => "file" \in Kinds(log)

\* force-text, a zero new oid, both callbacks: the oversized delta reached
\* the cleanup with its file callback made
C7_Witness ==
  /\ pc = "cleanup"
  /\ ClaimOverflow(CurDelta)
  /\ diff.opts.force_text
  /\ CurDelta.new.oid = 0
  /\ CurDelta.status = "MODIFIED"
  /\ cbs.hunk_cb /\ cbs.line_cb
  /\ "file" \in Kinds(log)

\* C8: under force-text, sizes fitting, both sides are marked not-binary and
\* binary = false without an attribute query, and binary is still false at
\* the file callback whatever was loaded.
C8_ForceText ==
  (pc \in AfterClassify /\ diff.opts.force_text /\ ~ClaimOverflow(CurDelta)) =>
    /\ "NOT_BINARY" \in CurDelta.old.flags
    /\ "NOT_BINARY" \in CurDelta.new.flags
    /\ "attr" \notin Kinds(log)
    /\ CurDelta.binary = 0
    /\ \A i \in DOMAIN log : log[i].kind = "file" => log[i].binary = 0

\* force-text with a symlink whose target holds a NUL: the loader marked
\* the side binary and the file callback was made
C8_Witness ==
  /\ pc = "diff"
  /\ diff.opts.force_text
  /\ "file" \in Kinds(log)
  /\ "BINARY" \in CurDelta.new.flags
  /\ "FREE_DATA" \in CurDelta.new.flags
  /\ new_data.nuls # {}

\* a NUL among the first min(length, 4000) bytes
NulInWindow(map) ==
  \E k \in map.nuls : k < map.len /\ k < SniffWindow

\* what the claim says the sniff does to one side
ClaimSniffed(before, after, map) ==
  IF before.flags \cap BINARY_DIFF_FLAGS = {}
    THEN after.flags = before.flags \cup
           (IF NulInWindow(map) THEN {"BINARY"} ELSE {"NOT_BINARY"})
    ELSE after = before

\* C9: the content sniff makes an undecided side binary exactly when a NUL
\* is among the first min(length, 4000) bytes of its buffer, else
\* not-binary; bytes from offset 4000 on do not count, and a side that was
\* not loaded is an empty buffer and becomes not-binary.
C9_ContentSniff ==
  [][ (pc = "sniff" /\ CurDelta.binary = -1) =>
        /\ ClaimSniffed(CurDelta.old, CurDelta'.old, old_data)
        /\ ClaimSniffed(CurDelta.new, CurDelta'.new, new_data)
        /\ (Count(log, "load", "old") = 0 /\ CurDelta.old.flags
              \cap BINARY_DIFF_FLAGS = {})
             => "NOT_BINARY" \in CurDelta'.old.flags
        /\ (Count(log, "load", "new") = 0 /\ CurDelta.new.flags
              \cap BINARY_DIFF_FLAGS = {})
             => "NOT_BINARY" \in CurDelta'.new.flags ]_vars

\* a buffer with its only NUL at offset 4000 was sniffed as text
C9_Witness ==
  /\ pc = "file_cb"
  /\ "sniff" \in Kinds(log)
  /\ new_data.len > SniffWindow
  /\ new_data.nuls = {SniffWindow}
  /\ CurDelta.new.flags \cap BINARY_DIFF_FLAGS = {"NOT_BINARY"}
  /\ CurDelta.binary = 0

NumOf(text) ==
  CASE text = << >> -> 0
    [] text = <<"0">> -> 0
    [] text = <<"1">> -> 1
    [] text = <<"3">> -> 3
    [] text = <<"5">> -> 5
    [] text = <<"6">> -> 6
    [] text = <<"1", "2">> -> 12

Range(os, ol, ns, nl) ==
  [old_start |-> os, old_lines |-> ol, new_start |-> ns, new_lines |-> nl]

\* the hunk callback was made once, with this range and the raw header
HunkCalled(hdr, range) ==
  /\ Len(log) = 1
  /\ log[1].kind = "hunk"
  /\ log[1].range = range
  /\ log[1].text = hdr

\* C10: `@@ -3,5 +3,6 @@` reaches the hunk callback as {3,5,3,6},
\* `@@ -0,0 +1 @@` as {0,0,1,0}: a missing count stays 0, text behind the
\* numbers is ignored, and a header without a digit makes no hunk callback.
C10_HunkHeaderParsing ==
  (pc = "adapter_done" /\ cbs.hunk_cb /\ Len(Head(xdl)) = 1) =>
    LET hdr == Head(xdl)[1]
    IN  /\ hdr = H356 => HunkCalled(hdr, Range(3, 5, 3, 6))
        /\ hdr = H001 => HunkCalled(hdr, Range(0, 0, 1, 0))
        /\ \A os \in StartTexts, ol \in CountTexts, ns \in StartTexts,
              nl \in CountTexts, tr \in TrailTexts :
             hdr = MkHeader(os, ol, ns, nl, tr) =>
               HunkCalled(hdr, Range(NumOf(os), NumOf(ol), NumOf(ns),
                                     NumOf(nl)))
        /\ (\A p \in DOMAIN hdr : hdr[p] \notin Digits) => log = << >>

\* `@@ -0,0 +1 @@ f(9)`: no count behind the new start, text behind it
C10_Witness ==
  /\ pc = "adapter_done"
  /\ cbs.hunk_cb
  /\ Head(xdl) = << H001 \o <<" ", "f", "(", "9", ")">> >>
  /\ HunkCalled(Head(xdl)[1], Range(0, 0, 1, 0))

\* a one-part unit that begins with '@' and does not hold both start numbers
MalformedHunkUnit(unit) ==
  /\ Len(unit) = 1
  /\ CharAt(unit[1], 1) = "@"
  /\ unit[1] \in MalformedHeaders

\* C11: a malformed hunk header is dropped without being an error: no
\* callback is made for it and diff_output_cb returns success, so that
\* xdl_diff goes on with the later hunks and lines of the delta.
C11_MalformedHeaderDropped ==
  (pc = "adapter_done" /\ cbs.hunk_cb /\ MalformedHunkUnit(Head(xdl))) =>
    /\ log = << >>
    /\ error = GIT_SUCCESS

\* the origin the claim gives the first callback of a line unit
ClaimOrigin(unit) ==
  IF unit[1] = <<"+">> THEN "ADDITION"
  ELSE IF unit[1] = <<"-">> THEN "DELETION"
  ELSE "CONTEXT"

\* C12: a two-part unit makes one line callback (addition for '+', deletion
\* for '-', context otherwise) with part 2 as content; a three-part unit
\* makes the same callback and, only if that one succeeded, one more with
\* part 3 and the without-eol origin of the same direction; a failure of the
\* first callback is returned and the second is not made.
C12_LineEvents ==
  (pc = "adapter_done" /\ cbs.line_cb /\ Len(Head(xdl)) \in {2, 3}) =>
    LET unit == Head(xdl)
    IN  /\ Len(log) >= 1
        /\ log[1].kind = "line"
        /\ log[1].origin = ClaimOrigin(unit)
        /\ log[1].text = unit[2]
        /\ IF Len(unit) = 3 /\ log[1].ret = GIT_SUCCESS
             THEN /\ Len(log) = 2
                  /\ log[2].kind = "line"
                  /\ log[2].text = unit[3]
                  /\ log[1].origin = "ADDITION" => log[2].origin = "ADD_EOFNL"
                  /\ log[1].origin = "DELETION" => log[2].origin = "DEL_EOFNL"
                  /\ error = log[2].ret
             ELSE /\ Len(log) = 1
                  /\ error = log[1].ret

\* the first callback of a three-part '+' unit failed: it was the only one
C12_Witness ==
  /\ pc = "adapter_done"
  /\ Head(xdl) = << <<"+">>, <<"x">>, EofMarker >>
  /\ Len(log) = 1
  /\ log[1].origin = "ADDITION"
  /\ log[1].ret = GIT_ERROR
  /\ error = GIT_ERROR

IsPrint(e) == e.kind = "print"

\* the print callback calls of the iteration, in order
Prints == SelectSeq(log, IsPrint)

\* how a side may be named in the output for a delta
SideTexts(delta) ==
  {"/dev/null", "a/" \o delta.old.path.name, "b/" \o delta.new.path.name}

\* C13: the patch renderer prints for a binary delta, when nothing fails,
\* exactly the file header (the `diff --git` line and the index/mode block,
\* without `--- ` and `+++ ` lines) and then the binary notice `Binary files
\* <old> and <new> differ`; nothing is printed with a hunk-header tag or a
\* line origin.
C13_PatchBinaryDelta ==
  (pc = "cleanup" /\ CurDelta.binary = 1 /\ "file" \in Kinds(log)) =>
    /\ Kinds(log) \cap {"hunk", "line", "xdl_diff"} = {}
    /\ \A i \in DOMAIN Prints : Prints[i].origin \in {"FILE_HDR", "BINARY"}
    /\ Len(Prints) <= 2
    /\ error = GIT_SUCCESS => Len(Prints) = 2
    /\ Len(Prints) >= 1 =>
         /\ Prints[1].origin = "FILE_HDR"
         /\ Prints[1].text =
              << "diff --git a/" \o CurDelta.old.path.name \o " b/"
                   \o CurDelta.new.path.name \o "\n"
                   \o print_oid_range(CurDelta) >>
    /\ Len(Prints) = 2 =>
         /\ Prints[1].ret = GIT_SUCCESS
         /\ Prints[2].origin = "BINARY"
         /\ \E o \in SideTexts(CurDelta), n \in SideTexts(CurDelta) :
              Prints[2].text =
                << "Binary files " \o o \o " and " \o n \o " differ\n" >>

\* a delta that the content sniff found binary got its header and notice
C13_Witness ==
  /\ pc = "cleanup"
  /\ CurDelta.binary = 1
  /\ "sniff" \in Kinds(log)
  /\ error = GIT_SUCCESS
  /\ Len(Prints) = 2
  /\ Prints[2].text = << "Binary files a/f and b/f differ\n" >>

\* how the claim renders one side: its own prefix and path, or `/dev/null`
\* when its own oid is zero
ClaimSideText(pfx, file) ==
  IF file.oid = 0 THEN "/dev/null" ELSE pfx \o file.path.name

\* C14: in the `--- `/`+++ ` lines and in the binary notice of the patch
\* renderer the old side is `/dev/null` exactly when the old oid is zero and
\* the new side is `/dev/null` exactly when the new oid is zero; a side with
\* an oid is its prefix followed by its path.
C14_SidesRenderIndependently ==
  pc \in {"diff", "xdl", "cleanup"} =>
    LET o == ClaimSideText(diff.opts.src_prefix, CurDelta.old)
        n == ClaimSideText(diff.opts.dst_prefix, CurDelta.new)
    IN  \A i \in DOMAIN Prints :
          /\ (Prints[i].origin = "FILE_HDR" /\ CurDelta.binary # 1) =>
               Prints[i].text =
                 << "diff --git a/" \o CurDelta.old.path.name \o " b/"
                      \o CurDelta.new.path.name \o "\n"
                      \o print_oid_range(CurDelta)
                      \o "--- " \o o \o "\n" \o "+++ " \o n \o "\n" >>
          /\ Prints[i].origin = "BINARY" =>
               Prints[i].text =
                 << "Binary files " \o o \o " and " \o n \o " differ\n" >>

\* C15: for a renamed delta whose paths differ and whose modes are equal,
\* regular and not executable, the compact renderer prints one line: `R`, a
\* tab, the old path, ` -> `, the new path and a newline, with no suffix
\* character behind either path.
C15_CompactRename ==
  (/\ pc \in {"diff", "xdl", "cleanup"}
   /\ "file" \in Kinds(log)
   /\ CurDelta.status = "RENAMED"
   /\ CurDelta.old.path.name # CurDelta.new.path.name
   /\ CurDelta.old.mode = "REG" /\ CurDelta.new.mode = "REG") =>
    /\ Len(Prints) <= 1
    /\ \A i \in DOMAIN Prints :
         /\ Prints[i].origin = "FILE_HDR"
         /\ Prints[i].text =
              << "R" \o "\t" \o CurDelta.old.path.name \o " -> "
                   \o CurDelta.new.path.name \o "\n" >>

\* the status the claim gives the delta of git_diff_blobs
ClaimBlobsStatus(old, new) ==
  IF old # 0 THEN (IF new # 0 THEN "MODIFIED" ELSE "DELETED")
  ELSE (IF new # 0 THEN "ADDED" ELSE "UNTRACKED")

\* C16: the delta git_diff_blobs passes to the hunk and line callbacks has
\* status modified with both blobs present, deleted with the old one only,
\* added with the new one only and untracked with none, presence being taken
\* after the swap under the reverse flag.
C16_BlobsStatus ==
  \A i \in DOMAIN log :
    log[i].kind \in {"hunk", "line"} =>
      CurDelta.status = ClaimBlobsStatus(SwappedBlobs(diff)[1],
                                         SwappedBlobs(diff)[2])

\* C17: when a hunk or line callback fails under git_diff_blobs no further
\* hunk or line callback is made and git_diff_blobs returns that error.
C17_BlobsReturnsFirstError ==
  cbErr.kind # "none" =>
    /\ afterErr \cap {"hunk", "line"} = {}
    /\ pc = "done" => result = cbErr.ret

\* C18: a delta with status added or modified whose new oid is zero and
\* whose new content was loaded is hashed; when the hash is the old oid the
\* delta becomes unmodified and goes to the release without a file, hunk or
\* line callback, so no such delta is found behind the load with its oid
\* still zero.
C18_OidReconciliation ==
  (/\ pc \in {"sniff", "file_cb", "diff", "xdl"}
   /\ CurDelta.status \in {"ADDED", "MODIFIED"}
   /\ CurDelta.new.oid = 0
   /\ new_data.data \in {"mmap", "heap"}) =>
    git_odb_hash(new_data, FALSE) # CurDelta.old.oid

\* C19: in the attribute phase of the classification, when both sides have
\* the same path, the attribute is looked up once, for the old side, and
\* afterwards the binary and not-binary flags of the new side are those of
\* the old side while the other flags of the new side are as before.
C19_AttrMirror ==
  [][ (/\ pc = "classify"
       /\ ~diff.opts.force_text
       /\ ~ClaimOverflow(CurDelta)
       /\ CurDelta.old.path = CurDelta.new.path
       /\ error' = GIT_SUCCESS) =>
        /\ Count(log', "attr", "old") = 1
        /\ Count(log', "attr", "new") = 0
        /\ CurDelta'.new.flags \cap BINARY_DIFF_FLAGS
             = CurDelta'.old.flags \cap BINARY_DIFF_FLAGS
        /\ CurDelta'.new.flags \ BINARY_DIFF_FLAGS
             = CurDelta.new.flags \ BINARY_DIFF_FLAGS ]_vars

\* C20: whenever the driver reaches the call of xdl_diff at least one of the
\* hunk and line callbacks was supplied, so the assertion in front of the
\* call never fails, the compact renderer (no hunk, no line callback)
\* included.
C20_AssertionNeverFails ==
  pc \in {"xdl", "aborted"} => (cbs.hunk_cb \/ cbs.line_cb)

\* the file callback of the traversal before any other was made for the
\* delta at idx
FreshFileCb(idx) ==
  \E k \in DOMAIN diff.freshFiles : diff.freshFiles[k][1] = idx

\* C21: the binary value a delta has at its file callback does not depend
\* on earlier traversals of the list: in a traversal that follows one with
\* a file callback only it is what it was in the first traversal of the
\* list, options, attributes and contents being the same.
C21_ClassificationIndependent ==
  (diff.pass = 3 /\ pc \in {"diff", "xdl", "cleanup"}) =>
    \A i \in DOMAIN log :
      (log[i].kind = "file" /\ FreshFileCb(index)) =>
        log[i].binary = diff.fresh[index + 1].binary

\* C22: a side carries the map-owned flag only while its buffer is a memory
\* mapping that was acquired, and the release unmaps nothing else: after a
\* failed mmap of a working-directory file the side is not map-owned and
\* the release of the delta does not unmap it.
C22_MapOwnedOnlyWhenMapped ==
  /\ pc \in AfterClassify =>
       /\ "UNMAP_DATA" \in CurDelta.old.flags => old_data.data = "mmap"
       /\ "UNMAP_DATA" \in CurDelta.new.flags => new_data.data = "mmap"
  /\ \A i \in DOMAIN log : log[i].kind = "unmap" => log[i].origin = "mmap"

====
